---- MODULE Spec2Model ----
(***************************************************************************)
(* A model of ktsignal (include/ktsignal.hpp): the slot registry           *)
(* (std::list slots_ guarded by slots_mutex), connection handles and       *)
(* their erase_func, emit, and the three locking policies selected by the  *)
(* template parameters <thread_safe, emit_thread_safe>.                    *)
(*                                                                         *)
(* A registry entry is a list node.  std::list never moves a node, so a    *)
(* slot_iterator is the identity of the node it was obtained for; the      *)
(* model names the node created by the k-th emplace k.  An iterator to a   *)
(* node that has been erased is dangling.                                  *)
(***************************************************************************)
EXTENDS Integers, Sequences, FiniteSets, TLC

\* Bounds of the model.
NThreads == 2
MaxConn == 3
MaxMoves == 2
MaxMoveConn == 2
MaxPasses == 2
MaxHoldConn == 2

Threads == 1..NThreads
NoThread == 0
\* slots_.end(): the past-the-end iterator.
END == 0
Garbage == 0
\* The argument values emit is called with.
Args == {5, 7}
Policies == {"none", "shared", "exclusive"}

VARIABLES
    policy,     \* the instantiation: ktsignal, ktsignal_threadsafe, ktsignal_threadsafe_emit
    threads,    \* the threads the program runs
    slots_,     \* std::list<slot_type> slots_, as the sequence of its nodes
    mutex,      \* slots_mutex: [w |-> exclusive owner, r |-> shared owners]
    conns,      \* the connection objects created so far, in creation order
    pc,         \* where each thread is
    obj,        \* the connection a thread is disconnecting
    cur,        \* the iterator of a thread's emit loop
    arg,        \* the argument of a thread's emit call
    log,        \* the calls <<slot, argument>> a thread's emit has made (the slots record them)
    snap,       \* slots_ as it was when a thread's emit acquired its lock
    gone,       \* the slots whose disconnect() had returned when a thread's emit began
    via,        \* who called the disconnect a thread is in: "call" or "dtor"
    iters,      \* each thread's emit_iterate pass: its signal_iterator and what it has called
    ub,         \* undefined behaviour has happened (a dangling iterator was used)
    halted      \* "no", or how the process ended: "terminate" (std::terminate) or "crash"

vars == <<policy, threads, slots_, mutex, conns, pc, obj, cur, arg, log, snap, gone, via, iters, ub, halted>>

(***************************************************************************)
(* std::list                                                               *)
(***************************************************************************)
Range(s) == {s[i] : i \in 1..Len(s)}

\* A bug: the new node is put at slots_.begin().
EmplaceFront(list, node) == <<node>> \o list

\* slots_.emplace(slots_.end(), slot): the new node goes last.
Emplace(list, node) == Append(list, node)

\* A bug: the handle keeps the position the slot was inserted at, in a
\* container whose positions shift when an earlier element is removed.
EraseShifting(list, it) == [i \in 1..(Len(list) - 1) |-> IF i < it THEN list[i] ELSE list[i + 1]]

\* A bug: the lambda captures slots_ by value and erases from its own copy.
EraseFromCopy(list, it) == list

\* slots_.erase(it), it an iterator to a node of the list: that node is
\* unlinked; every other node stays, in its place.
Erase(list, it) == SelectSeq(list, LAMBDA n : n # it)

\* A bug: the loop starts one past begin().
BeginSecond(list) == IF Len(list) < 2 THEN END ELSE list[2]

\* slots_.begin()
Begin(list) == IF list = <<>> THEN END ELSE Head(list)

\* ++it, it an iterator to a node of the list
Succ(list, it) ==
    LET i == CHOOSE k \in 1..Len(list) : list[k] = it
    IN  IF i = Len(list) THEN END ELSE list[i + 1]

(***************************************************************************)
(* slots_mutex: std::shared_mutex, or empty_mutex whose operations do      *)
(* nothing                                                                 *)
(***************************************************************************)
\* A bug: the exclusive lock does not wait for the shared owners.
CanLockOverReaders(t) == policy = "none" \/ mutex.w = NoThread

\* A bug: the mutex is recursive, the thread that owns it may lock it again.
CanLockRecursive(t) == policy = "none" \/ (mutex.w \in {NoThread, t} /\ mutex.r \subseteq {t})

CanLock(t) == policy = "none" \/ (mutex.w = NoThread /\ mutex.r = {})

Lock(t) == IF policy = "none" THEN mutex ELSE [mutex EXCEPT !.w = t]

\* A bug: the exclusive lock is let go of (release()) without being unlocked.
UnlockNever(t) == mutex

Unlock(t) == IF policy = "none" THEN mutex ELSE [mutex EXCEPT !.w = NoThread]

CanLockShared(t) == policy = "none" \/ mutex.w = NoThread

LockShared(t) == IF policy = "none" THEN mutex ELSE [mutex EXCEPT !.r = @ \cup {t}]

UnlockShared(t) == IF policy = "none" THEN mutex ELSE [mutex EXCEPT !.r = @ \ {t}]

\* A bug: emit_locker is the shared lock whatever emit_thread_safe says.
EmitLockerShared == "shared_lock"

\* emit_locker: std::unique_lock when emit_thread_safe, else std::shared_lock.
EmitLocker == IF policy = "exclusive" THEN "unique_lock" ELSE "shared_lock"

EmitCanLock(t) == IF EmitLocker = "unique_lock" THEN CanLock(t) ELSE CanLockShared(t)

EmitLocked(t) == IF EmitLocker = "unique_lock" THEN Lock(t) ELSE LockShared(t)

EmitUnlocked(t) == IF EmitLocker = "unique_lock" THEN Unlock(t) ELSE UnlockShared(t)

(***************************************************************************)
(* Connections                                                             *)
(***************************************************************************)
\* The lambda connect builds: it captures the registry, the mutex and erase_iter.
EraseAction(iter) == [tag |-> "erase", iter |-> iter]
\* []() {}
NoOp == [tag |-> "noop", iter |-> END]
\* A std::function without a target: calling it throws std::bad_function_call.
Empty == [tag |-> "empty", iter |-> END]

Objs == 1..Len(conns)

\* The nodes emplaced so far are 1..Nodes.
Nodes == Cardinality({conns[o].slot : o \in Objs})

\* The connection objects no thread is operating on.
Free(o) == \A t \in Threads : pc[t] \in {"disc_wait", "erase_cs", "disc_reset", "threw"} => obj[t] # o

\* The slots whose handle's disconnect() has returned.
Returned == {conns[o].slot : o \in {x \in Objs : conns[x].disconnected}}

\* A thread runs while the process does; once undefined behaviour has
\* happened the model follows the process no further.
Live(t) == halted = "no" /\ ~ub /\ t \in threads

NoIter == [live |-> FALSE, cur |-> END, arg |-> 0, argok |-> TRUE, log |-> <<>>,
           fresh |-> FALSE, skipped |-> FALSE, made |-> <<>>, ended |-> 0, passes |-> 0]

InitWith(pols, ths) ==
    /\ policy \in pols
    /\ threads = ths
    /\ slots_ = <<>>
    /\ mutex = [w |-> NoThread, r |-> {}]
    /\ conns = <<>>
    /\ pc = [t \in Threads |-> "idle"]
    /\ obj = [t \in Threads |-> 0]
    /\ cur = [t \in Threads |-> END]
    /\ arg = [t \in Threads |-> 0]
    /\ log = [t \in Threads |-> <<>>]
    /\ snap = [t \in Threads |-> <<>>]
    /\ gone = [t \in Threads |-> {}]
    /\ via = [t \in Threads |-> "call"]
    /\ iters = [t \in Threads |-> NoIter]
    /\ ub = FALSE
    /\ halted = "no"

(***************************************************************************)
(* connect(slot) and scoped_connect(slot): the same body, the handle's     *)
(* type apart                                                              *)
(***************************************************************************)
Connecting == {"connect_wait", "connect_cs", "sconnect_wait", "sconnect_cs"}

CallConnect(t, waiting) ==
    /\ Live(t)
    /\ pc[t] = "idle"
    /\ Nodes + Cardinality({u \in Threads : pc[u] \in Connecting}) < MaxConn
    /\ pc' = [pc EXCEPT ![t] = waiting]
    /\ UNCHANGED <<policy, threads, slots_, mutex, conns, obj, cur, arg, log, snap, gone, via, iters, ub, halted>>

\* std::unique_lock<mutex_type> lock(slots_mutex);
LockConnect(t, waiting, inside) ==
    /\ Live(t)
    /\ pc[t] = waiting
    /\ CanLock(t)
    /\ mutex' = Lock(t)
    /\ pc' = [pc EXCEPT ![t] = inside]
    /\ UNCHANGED <<policy, threads, slots_, conns, obj, cur, arg, log, snap, gone, via, iters, ub, halted>>

\* The emplace, the handle built around the erase lambda, and the unlock
\* on return.
InsertConnect(t, inside, scoped) ==
    /\ Live(t)
    /\ pc[t] = inside
    /\ LET erase_iter == Nodes + 1
       IN  /\ slots_' = Emplace(slots_, erase_iter)
           /\ conns' = Append(conns, [slot |-> erase_iter, erase_func |-> EraseAction(erase_iter),
                                      scoped |-> scoped, disconnected |-> FALSE, alive |-> TRUE,
                                      moved |-> FALSE])
    /\ mutex' = Unlock(t)
    /\ pc' = [pc EXCEPT ![t] = "idle"]
    /\ UNCHANGED <<policy, threads, obj, cur, arg, log, snap, gone, via, iters, ub, halted>>

ConnectCall(t) == CallConnect(t, "connect_wait")

ConnectLock(t) == LockConnect(t, "connect_wait", "connect_cs")

ConnectInsert(t) == InsertConnect(t, "connect_cs", FALSE)

ScopedConnectCall(t) == CallConnect(t, "sconnect_wait")

ScopedConnectLock(t) == LockConnect(t, "sconnect_wait", "sconnect_cs")

ScopedConnectInsert(t) == InsertConnect(t, "sconnect_cs", TRUE)

(***************************************************************************)
(* ktsignal_connection::disconnect()                                       *)
(***************************************************************************)
\* erase_func(): the erase lambda goes for the lock; the no-op returns; an
\* empty std::function throws std::bad_function_call, which leaves
\* disconnect() at once and, out of a destructor, ends in std::terminate.
EnterDisconnect(t, o, who) ==
    /\ Live(t)
    /\ pc[t] = "idle"
    /\ conns[o].alive
    /\ Free(o)
    /\ obj' = [obj EXCEPT ![t] = o]
    /\ via' = [via EXCEPT ![t] = who]
    /\ pc' = [pc EXCEPT ![t] = CASE conns[o].erase_func.tag = "erase" -> "disc_wait"
                                 [] conns[o].erase_func.tag = "noop" -> "disc_reset"
                                 [] OTHER -> "threw"]
    /\ halted' = IF conns[o].erase_func.tag = "empty" /\ who = "dtor" THEN "terminate" ELSE halted
    /\ UNCHANGED <<policy, threads, slots_, mutex, conns, cur, arg, log, snap, gone, iters, ub>>

DisconnectCall(t, o) == EnterDisconnect(t, o, "call")

\* A bug: the scoped connection's destructor does not disconnect.
DestroyScopedOnly(t, o) ==
    /\ Live(t)
    /\ pc[t] = "idle"
    /\ conns[o].alive
    /\ conns[o].scoped
    /\ Free(o)
    /\ conns' = [conns EXCEPT ![o].alive = FALSE]
    /\ UNCHANGED <<policy, threads, slots_, mutex, pc, obj, cur, arg, log, snap, gone, via, iters, ub, halted>>

\* ~ktsignal_scoped_connection() { ktsignal_connection::disconnect(); }
DestroyScoped(t, o) == conns[o].scoped /\ EnterDisconnect(t, o, "dtor")

\* A bug: ~ktsignal_connection() disconnects, as the scoped handle's does.
DestroyPlainDisconnects(t, o) == ~conns[o].scoped /\ EnterDisconnect(t, o, "dtor")

\* A ktsignal_connection has no destructor of its own.
DestroyPlain(t, o) ==
    /\ Live(t)
    /\ pc[t] = "idle"
    /\ conns[o].alive
    /\ ~conns[o].scoped
    /\ Free(o)
    /\ conns' = [conns EXCEPT ![o].alive = FALSE]
    /\ UNCHANGED <<policy, threads, slots_, mutex, pc, obj, cur, arg, log, snap, gone, via, iters, ub, halted>>

\* The caller of disconnect() catches the std::bad_function_call.
Catch(t) ==
    /\ Live(t)
    /\ pc[t] = "threw"
    /\ obj' = [obj EXCEPT ![t] = 0]
    /\ cur' = [cur EXCEPT ![t] = END]
    /\ arg' = [arg EXCEPT ![t] = 0]
    /\ log' = [log EXCEPT ![t] = <<>>]
    /\ snap' = [snap EXCEPT ![t] = <<>>]
    /\ gone' = [gone EXCEPT ![t] = {}]
    /\ pc' = [pc EXCEPT ![t] = "idle"]
    /\ UNCHANGED <<policy, threads, slots_, mutex, conns, via, iters, ub, halted>>

\* The lambda's std::unique_lock<mutex_type> lock(slots_mutex);
EraseLock(t) ==
    /\ Live(t)
    /\ pc[t] = "disc_wait"
    /\ CanLock(t)
    /\ mutex' = Lock(t)
    /\ pc' = [pc EXCEPT ![t] = "erase_cs"]
    /\ UNCHANGED <<policy, threads, slots_, conns, obj, cur, arg, log, snap, gone, via, iters, ub, halted>>

\* What slots_.erase(iter) leaves.  Through a dangling iterator it is
\* undefined: the process crashes, or goes on with the list as it was, or
\* with the node gone that now lives at the erased node's address.
EraseOutcomes(list, iter) ==
    IF iter \in Range(list)
    THEN {[list |-> Erase(list, iter), ub |-> FALSE, halted |-> "no"]}
    ELSE {[list |-> list, ub |-> TRUE, halted |-> h] : h \in {"no", "crash"}}
         \cup {[list |-> Erase(list, n), ub |-> TRUE, halted |-> "no"] : n \in Range(list)}

\* slots_.erase(erase_iter); and the lambda's unlock on return.
EraseDo(t) ==
    /\ Live(t)
    /\ pc[t] = "erase_cs"
    /\ \E out \in EraseOutcomes(slots_, conns[obj[t]].erase_func.iter) :
        /\ slots_' = out.list
        /\ ub' = (ub \/ out.ub)
        /\ halted' = out.halted
    /\ mutex' = Unlock(t)
    /\ pc' = [pc EXCEPT ![t] = "disc_reset"]
    /\ UNCHANGED <<policy, threads, conns, obj, cur, arg, log, snap, gone, via, iters>>

\* A bug: disconnect() leaves erase_func as it is.
DisconnectReturnArmed(t) ==
    /\ Live(t)
    /\ pc[t] = "disc_reset"
    /\ conns' = [conns EXCEPT ![obj[t]].disconnected = TRUE,
                              ![obj[t]].alive = (via[t] # "dtor")]
    /\ obj' = [obj EXCEPT ![t] = 0]
    /\ via' = [via EXCEPT ![t] = "call"]
    /\ pc' = [pc EXCEPT ![t] = "idle"]
    /\ UNCHANGED <<policy, threads, slots_, mutex, cur, arg, log, snap, gone, iters, ub, halted>>

\* erase_func = []() {}; and disconnect returns; the destructor's object is gone.
DisconnectReturn(t) ==
    /\ Live(t)
    /\ pc[t] = "disc_reset"
    /\ conns' = [conns EXCEPT ![obj[t]].erase_func = NoOp,
                              ![obj[t]].disconnected = TRUE,
                              ![obj[t]].alive = (via[t] # "dtor")]
    /\ obj' = [obj EXCEPT ![t] = 0]
    /\ via' = [via EXCEPT ![t] = "call"]
    /\ pc' = [pc EXCEPT ![t] = "idle"]
    /\ UNCHANGED <<policy, threads, slots_, mutex, cur, arg, log, snap, gone, iters, ub, halted>>

(***************************************************************************)
(* The defaulted move constructors: erase_func is move-constructed.  The   *)
(* standard leaves the moved-from std::function valid but unspecified:     *)
(* the library implementations leave it empty when the target lives on the *)
(* heap and may leave it holding the target when it is stored in place.    *)
(***************************************************************************)
MovedFrom(f) == {Empty, f}

Move(t, o) ==
    /\ Live(t)
    /\ pc[t] = "idle"
    /\ conns[o].alive
    /\ Free(o)
    /\ Len(conns) - Nodes < MaxMoves
    /\ \E left \in MovedFrom(conns[o].erase_func) :
        conns' = Append([conns EXCEPT ![o].erase_func = left, ![o].moved = TRUE],
                        [conns[o] EXCEPT !.disconnected = FALSE, !.moved = FALSE])
    /\ UNCHANGED <<policy, threads, slots_, mutex, pc, obj, cur, arg, log, snap, gone, via, iters, ub, halted>>

(***************************************************************************)
(* emit(args...)                                                           *)
(***************************************************************************)
EmitCall(t, a) ==
    /\ Live(t)
    /\ pc[t] = "idle"
    /\ arg' = [arg EXCEPT ![t] = a]
    /\ gone' = [gone EXCEPT ![t] = Returned]
    /\ pc' = [pc EXCEPT ![t] = "emit_wait"]
    /\ UNCHANGED <<policy, threads, slots_, mutex, conns, obj, cur, log, snap, via, iters, ub, halted>>

\* emit_locker lock(slots_mutex); and the loop's begin().
EmitLock(t) ==
    /\ Live(t)
    /\ pc[t] = "emit_wait"
    /\ EmitCanLock(t)
    /\ mutex' = EmitLocked(t)
    /\ cur' = [cur EXCEPT ![t] = Begin(slots_)]
    /\ snap' = [snap EXCEPT ![t] = slots_]
    /\ pc' = [pc EXCEPT ![t] = "emit"]
    /\ UNCHANGED <<policy, threads, slots_, conns, obj, arg, log, gone, via, iters, ub, halted>>

\* One turn of the loop: f(args...) on the node at the iterator, then ++.
EmitInvoke(t) ==
    /\ Live(t)
    /\ pc[t] = "emit"
    /\ cur[t] # END
    /\ log' = [log EXCEPT ![t] = Append(@, <<cur[t], arg[t]>>)]
    /\ cur' = [cur EXCEPT ![t] = Succ(slots_, cur[t])]
    /\ UNCHANGED <<policy, threads, slots_, mutex, conns, pc, obj, arg, snap, gone, via, iters, ub, halted>>

\* The loop is over: emit sits at its closing brace, the lock still held.
EmitLoopEnd(t) ==
    /\ Live(t)
    /\ pc[t] = "emit"
    /\ cur[t] = END
    /\ pc' = [pc EXCEPT ![t] = "emit_end"]
    /\ UNCHANGED <<policy, threads, slots_, mutex, conns, obj, cur, arg, log, snap, gone, via, iters, ub, halted>>

\* The lock is released and emit returns.
EmitReturn(t) ==
    /\ Live(t)
    /\ pc[t] = "emit_end"
    /\ mutex' = EmitUnlocked(t)
    /\ pc' = [pc EXCEPT ![t] = "idle"]
    /\ arg' = [arg EXCEPT ![t] = 0]
    /\ log' = [log EXCEPT ![t] = <<>>]
    /\ snap' = [snap EXCEPT ![t] = <<>>]
    /\ gone' = [gone EXCEPT ![t] = {}]
    /\ UNCHANGED <<policy, threads, slots_, conns, obj, cur, via, iters, ub, halted>>

\* The slot at the iterator throws and the loop goes on all the same.
EmitThrowSwallowed(t) ==
    /\ Live(t)
    /\ pc[t] = "emit"
    /\ cur[t] # END
    /\ log' = [log EXCEPT ![t] = Append(@, <<cur[t], arg[t], "threw">>)]
    /\ cur' = [cur EXCEPT ![t] = Succ(slots_, cur[t])]
    /\ UNCHANGED <<policy, threads, slots_, mutex, conns, pc, obj, arg, snap, gone, via, iters, ub, halted>>

\* f(args...) throws: nothing in emit catches, the loop is left.
EmitThrow(t) ==
    /\ Live(t)
    /\ pc[t] = "emit"
    /\ cur[t] # END
    /\ log' = [log EXCEPT ![t] = Append(@, <<cur[t], arg[t], "threw">>)]
    /\ pc' = [pc EXCEPT ![t] = "emit_threw"]
    /\ UNCHANGED <<policy, threads, slots_, mutex, conns, obj, cur, arg, snap, gone, via, iters, ub, halted>>

\* The exception leaves emit with the lock kept.
EmitUnwindLocked(t) ==
    /\ Live(t)
    /\ pc[t] = "emit_threw"
    /\ pc' = [pc EXCEPT ![t] = "threw"]
    /\ UNCHANGED <<policy, threads, slots_, mutex, conns, obj, cur, arg, log, snap, gone, via, iters, ub, halted>>

\* The exception leaves emit: ~emit_locker() releases the lock on the way.
EmitUnwind(t) ==
    /\ Live(t)
    /\ pc[t] = "emit_threw"
    /\ mutex' = EmitUnlocked(t)
    /\ pc' = [pc EXCEPT ![t] = "threw"]
    /\ UNCHANGED <<policy, threads, slots_, conns, obj, cur, arg, log, snap, gone, via, iters, ub, halted>>

(***************************************************************************)
(* emit_iterate(args...): the iterate object and its signal_iterator       *)
(***************************************************************************)
\* What a slot returns: slot k called with a returns k + a.
SlotResult(k, a) == k + a

\* The iterate object and its first begin(): slots_.begin() is read without
\* the lock.  stored_args is a tuple of references to the caller's arguments:
\* ok says whether what they refer to outlives the sequence.  ended is the
\* number of nodes made so far when the cursor came to end(), made the
\* registry as it was when the sequence was made.
\* One sequence is in use at a time.
MakeIterate(t, a, ok) ==
    /\ Live(t)
    /\ pc[t] = "idle"
    /\ \A u \in Threads : ~iters[u].live
    /\ iters' = [iters EXCEPT ![t] = [live |-> TRUE, cur |-> Begin(slots_), arg |-> a,
                                argok |-> ok, log |-> <<>>, fresh |-> TRUE,
                                skipped |-> FALSE, made |-> slots_,
                                ended |-> IF slots_ = <<>> THEN Nodes ELSE 0, passes |-> 1]]
    /\ UNCHANGED <<policy, threads, slots_, mutex, conns, pc, obj, cur, arg, log, snap, gone, via, ub, halted>>

\* emit_iterate(x) with x a variable of the caller that outlives the sequence.
EmitIterate(t, a) == MakeIterate(t, a, TRUE)

\* emit_iterate(7): the argument is a temporary, destroyed at the end of the
\* full expression that made the sequence, before the first operator*().
EmitIterateTemp(t, a) == MakeIterate(t, a, FALSE)

\* begin() called once more on the same iterate object.
IterBeginSpent(t) ==
    /\ Live(t)
    /\ pc[t] = "idle"
    /\ iters[t].live
    /\ iters[t].passes < MaxPasses
    /\ iters' = [iters EXCEPT ![t].cur = END, ![t].fresh = TRUE, ![t].ended = Nodes,
                              ![t].passes = @ + 1]
    /\ UNCHANGED <<policy, threads, slots_, mutex, conns, pc, obj, cur, arg, log, snap, gone, via, ub, halted>>

IterBegin(t) ==
    /\ Live(t)
    /\ pc[t] = "idle"
    /\ iters[t].live
    /\ iters[t].passes < MaxPasses
    /\ iters' = [iters EXCEPT ![t].cur = Begin(slots_), ![t].fresh = TRUE,
                              ![t].skipped = FALSE,
                              ![t].ended = IF slots_ = <<>> THEN Nodes ELSE 0,
                              ![t].passes = @ + 1]
    /\ UNCHANGED <<policy, threads, slots_, mutex, conns, pc, obj, cur, arg, log, snap, gone, via, ub, halted>>

\* operator*() is called on an iterator that is not end().
IterDerefCall(t) ==
    /\ Live(t)
    /\ pc[t] = "idle"
    /\ iters[t].live
    /\ iters[t].cur # END
    /\ iters[t].fresh
    /\ pc' = [pc EXCEPT ![t] = "deref_wait"]
    /\ UNCHANGED <<policy, threads, slots_, mutex, conns, obj, cur, arg, log, snap, gone, via, iters, ub, halted>>

\* operator*(): emit_locker lock(slots_mutex_);
IterDerefLock(t) ==
    /\ Live(t)
    /\ pc[t] = "deref_wait"
    /\ EmitCanLock(t)
    /\ mutex' = EmitLocked(t)
    /\ pc' = [pc EXCEPT ![t] = "deref_cs"]
    /\ UNCHANGED <<policy, threads, slots_, conns, obj, cur, arg, log, snap, gone, via, iters, ub, halted>>

\* What *iter_ calls.  Through a dangling iterator it is undefined: the
\* process crashes, or the slot still found in the freed node is called.
DerefOutcomes(list, iter) ==
    IF iter \in Range(list)
    THEN {[ub |-> FALSE, halted |-> "no"]}
    ELSE {[ub |-> TRUE, halted |-> h] : h \in {"no", "crash"}}

\* What stored_args hands to the slot.  Read through a reference to a
\* destroyed temporary it is undefined: the old value, or any other.
ArgOutcomes(a, ok) ==
    IF ok
    THEN {[arg |-> a, ub |-> FALSE]}
    ELSE {[arg |-> g, ub |-> TRUE] : g \in Args \cup {Garbage}}

\* operator*(): std::apply(*iter_, stored_args), and the unlock on return.
\* The log keeps the slot called, the argument it got and the value returned.
IterDerefInvoke(t) ==
    /\ Live(t)
    /\ pc[t] = "deref_cs"
    /\ \E out \in DerefOutcomes(slots_, iters[t].cur), given \in ArgOutcomes(iters[t].arg, iters[t].argok) :
        /\ ub' = (ub \/ out.ub \/ given.ub)
        /\ halted' = out.halted
        /\ iters' = [iters EXCEPT ![t].log = Append(@, <<iters[t].cur, given.arg, SlotResult(iters[t].cur, given.arg)>>),
                                  ![t].fresh = FALSE]
    /\ mutex' = EmitUnlocked(t)
    /\ pc' = [pc EXCEPT ![t] = "idle"]
    /\ UNCHANGED <<policy, threads, slots_, conns, obj, cur, arg, log, snap, gone, via>>

\* operator*(): the slot throws; ~emit_locker() releases the lock as the
\* exception leaves operator*().
IterDerefThrow(t) ==
    /\ Live(t)
    /\ pc[t] = "deref_cs"
    /\ iters[t].cur \in Range(slots_)
    /\ iters[t].argok
    /\ iters' = [iters EXCEPT ![t].log = Append(@, <<iters[t].cur, iters[t].arg, "threw">>),
                              ![t].fresh = FALSE]
    /\ mutex' = EmitUnlocked(t)
    /\ pc' = [pc EXCEPT ![t] = "threw"]
    /\ UNCHANGED <<policy, threads, slots_, conns, obj, cur, arg, log, snap, gone, via, ub, halted>>

\* Where iter_++ leaves the iterator.  From a dangling iterator it is
\* undefined: the process crashes, or the iterator takes whatever the freed
\* node's link holds.
AdvanceOutcomes(list, iter) ==
    IF iter \in Range(list)
    THEN {[cur |-> Succ(list, iter), ub |-> FALSE, halted |-> "no"]}
    ELSE {[cur |-> iter, ub |-> TRUE, halted |-> "crash"]}
         \cup {[cur |-> n, ub |-> TRUE, halted |-> "no"] : n \in (1..Nodes) \cup {END}}

\* A bug: the iterator walks a copy of the registry taken when the sequence
\* was made.
IterAdvanceSnapshot(t) ==
    /\ Live(t)
    /\ pc[t] = "idle"
    /\ iters[t].live
    /\ iters[t].cur # END
    /\ \E out \in AdvanceOutcomes(iters[t].made, iters[t].cur) :
        /\ iters' = [iters EXCEPT ![t].cur = out.cur, ![t].fresh = TRUE,
                                  ![t].skipped = (@ \/ iters[t].fresh),
                                  ![t].ended = IF out.cur = END THEN Nodes ELSE 0]
        /\ ub' = (ub \/ out.ub)
        /\ halted' = out.halted
    /\ UNCHANGED <<policy, threads, slots_, mutex, conns, pc, obj, cur, arg, log, snap, gone, via>>

\* operator++(): iter_++, without the lock.
IterAdvance(t) ==
    /\ Live(t)
    /\ pc[t] = "idle"
    /\ iters[t].live
    /\ iters[t].cur # END
    /\ \E out \in AdvanceOutcomes(slots_, iters[t].cur) :
        /\ iters' = [iters EXCEPT ![t].cur = out.cur, ![t].fresh = TRUE,
                                  ![t].skipped = (@ \/ iters[t].fresh),
                                  ![t].ended = IF out.cur = END THEN Nodes ELSE 0]
        /\ ub' = (ub \/ out.ub)
        /\ halted' = out.halted
    /\ UNCHANGED <<policy, threads, slots_, mutex, conns, pc, obj, cur, arg, log, snap, gone, via>>

\* The caller is done with the sequence: at its end, or before it.
IterDrop(t) ==
    /\ Live(t)
    /\ pc[t] = "idle"
    /\ iters[t].live
    /\ iters' = [iters EXCEPT ![t] = NoIter]
    /\ UNCHANGED <<policy, threads, slots_, mutex, conns, pc, obj, cur, arg, log, snap, gone, via, ub, halted>>

(***************************************************************************)
(* disconnect() on one handle from several threads at once                 *)
(***************************************************************************)
\* Some other thread is inside disconnect() on the handle o.
Shared(t, o) ==
    \E u \in Threads \ {t} : obj[u] = o /\ pc[u] \in {"disc_wait", "erase_cs", "disc_reset"}

\* disconnect() is called on o, whoever else is using o: erase_func is read
\* and called with nothing to keep other threads off the handle.
RaceDisconnectCall(t, o) ==
    /\ Live(t)
    /\ pc[t] = "idle"
    /\ conns[o].alive
    /\ conns[o].erase_func.tag \in {"erase", "noop"}
    /\ obj' = [obj EXCEPT ![t] = o]
    /\ pc' = [pc EXCEPT ![t] = IF conns[o].erase_func.tag = "erase"
                                THEN "disc_wait" ELSE "disc_reset"]
    /\ UNCHANGED <<policy, threads, slots_, mutex, conns, cur, arg, log, snap, gone, via, iters, ub, halted>>

\* slots_.erase(erase_iter) by a thread that called the erase lambda while
\* the handle was armed: erase_iter is the iterator connect captured,
\* whatever erase_func has been set to since.
RaceEraseDo(t) ==
    /\ Live(t)
    /\ pc[t] = "erase_cs"
    /\ \E out \in EraseOutcomes(slots_, conns[obj[t]].slot) :
        /\ slots_' = out.list
        /\ ub' = (ub \/ out.ub)
        /\ halted' = out.halted
    /\ mutex' = Unlock(t)
    /\ pc' = [pc EXCEPT ![t] = "disc_reset"]
    /\ UNCHANGED <<policy, threads, conns, obj, cur, arg, log, snap, gone, via, iters>>

\* erase_func = [](){}; written while another thread reads, runs or writes
\* the same erase_func is a data race.
RaceDisconnectReturn(t) ==
    /\ Live(t)
    /\ pc[t] = "disc_reset"
    /\ conns' = [conns EXCEPT ![obj[t]].erase_func = NoOp, ![obj[t]].disconnected = TRUE]
    /\ ub' = (ub \/ Shared(t, obj[t]))
    /\ obj' = [obj EXCEPT ![t] = 0]
    /\ pc' = [pc EXCEPT ![t] = "idle"]
    /\ UNCHANGED <<policy, threads, slots_, mutex, cur, arg, log, snap, gone, via, iters, halted>>

(***************************************************************************)
(* Slots that call connect or disconnect on the signal that is calling     *)
(* them                                                                    *)
(***************************************************************************)
InSlot == {"slot_disc_wait", "slot_erase_cs", "slot_disc_reset",
           "slot_conn_wait", "slot_conn_cs", "slot_ret"}

\* The thread already owns slots_mutex, through emit's emit_locker.
Owns(t) == mutex.w = t \/ t \in mutex.r

\* emit's loop calls the slot at the iterator, and the slot calls
\* disconnect() on the handle o.
SlotDisconnect(t, o) ==
    /\ Live(t)
    /\ pc[t] = "emit"
    /\ cur[t] # END
    /\ conns[o].alive
    /\ Free(o)
    /\ conns[o].erase_func.tag \in {"erase", "noop"}
    /\ log' = [log EXCEPT ![t] = Append(@, <<cur[t], arg[t]>>)]
    /\ obj' = [obj EXCEPT ![t] = o]
    /\ pc' = [pc EXCEPT ![t] = IF conns[o].erase_func.tag = "erase"
                                THEN "slot_disc_wait" ELSE "slot_disc_reset"]
    /\ UNCHANGED <<policy, threads, slots_, mutex, conns, cur, arg, snap, gone, via, iters, ub, halted>>

\* The erase lambda inside the slot: std::unique_lock lock{ slots_mutex };
SlotEraseLock(t) ==
    /\ Live(t)
    /\ pc[t] = "slot_disc_wait"
    /\ CanLock(t)
    /\ mutex' = Lock(t)
    /\ pc' = [pc EXCEPT ![t] = "slot_erase_cs"]
    /\ UNCHANGED <<policy, threads, slots_, conns, obj, cur, arg, log, snap, gone, via, iters, ub, halted>>

\* slots_.erase(erase_iter) inside the slot, and the lambda's unlock.
SlotEraseDo(t) ==
    /\ Live(t)
    /\ pc[t] = "slot_erase_cs"
    /\ \E out \in EraseOutcomes(slots_, conns[obj[t]].erase_func.iter) :
        /\ slots_' = out.list
        /\ ub' = (ub \/ out.ub)
        /\ halted' = out.halted
    /\ mutex' = Unlock(t)
    /\ pc' = [pc EXCEPT ![t] = "slot_disc_reset"]
    /\ UNCHANGED <<policy, threads, conns, obj, cur, arg, log, snap, gone, via, iters>>

\* erase_func = [](){}; and disconnect() returns into the slot.
SlotDisconnectReturn(t) ==
    /\ Live(t)
    /\ pc[t] = "slot_disc_reset"
    /\ conns' = [conns EXCEPT ![obj[t]].erase_func = NoOp, ![obj[t]].disconnected = TRUE]
    /\ obj' = [obj EXCEPT ![t] = 0]
    /\ pc' = [pc EXCEPT ![t] = "slot_ret"]
    /\ UNCHANGED <<policy, threads, slots_, mutex, cur, arg, log, snap, gone, via, iters, ub, halted>>

\* emit's loop calls the slot at the iterator, and the slot calls connect().
SlotConnect(t) ==
    /\ Live(t)
    /\ pc[t] = "emit"
    /\ cur[t] # END
    /\ Nodes < MaxConn
    /\ log' = [log EXCEPT ![t] = Append(@, <<cur[t], arg[t]>>)]
    /\ pc' = [pc EXCEPT ![t] = "slot_conn_wait"]
    /\ UNCHANGED <<policy, threads, slots_, mutex, conns, obj, cur, arg, snap, gone, via, iters, ub, halted>>

\* connect inside the slot: std::unique_lock lock{ slots_mutex };
SlotConnectLock(t) ==
    /\ Live(t)
    /\ pc[t] = "slot_conn_wait"
    /\ CanLock(t)
    /\ mutex' = Lock(t)
    /\ pc' = [pc EXCEPT ![t] = "slot_conn_cs"]
    /\ UNCHANGED <<policy, threads, slots_, conns, obj, cur, arg, log, snap, gone, via, iters, ub, halted>>

\* connect inside the slot: the emplace, the handle, the unlock on return.
SlotConnectInsert(t) ==
    /\ Live(t)
    /\ pc[t] = "slot_conn_cs"
    /\ LET erase_iter == Nodes + 1
       IN  /\ slots_' = Emplace(slots_, erase_iter)
           /\ conns' = Append(conns, [slot |-> erase_iter, erase_func |-> EraseAction(erase_iter),
                                      scoped |-> FALSE, disconnected |-> FALSE, alive |-> TRUE,
                                      moved |-> FALSE])
    /\ mutex' = Unlock(t)
    /\ pc' = [pc EXCEPT ![t] = "slot_ret"]
    /\ UNCHANGED <<policy, threads, obj, cur, arg, log, snap, gone, via, iters, ub, halted>>

\* The nested lock() of a std::shared_mutex its caller already owns is
\* undefined.  The thread waits for ever; or lock() finds the deadlock and
\* throws std::system_error, which leaves the slot and then emit's loop.
SlotLockThrows(t) ==
    /\ Live(t)
    /\ pc[t] \in {"slot_disc_wait", "slot_conn_wait"}
    /\ policy # "none"
    /\ Owns(t)
    /\ log' = [log EXCEPT ![t] = [@ EXCEPT ![Len(@)] = <<cur[t], arg[t], "threw">>]]
    /\ obj' = [obj EXCEPT ![t] = 0]
    /\ pc' = [pc EXCEPT ![t] = "emit_threw"]
    /\ UNCHANGED <<policy, threads, slots_, mutex, conns, cur, arg, snap, gone, via, iters, ub, halted>>

\* The slot returns and the loop's ++ moves the iterator on.  The iterator
\* still points at the node of the slot that ran, erased or not.
SlotReturn(t) ==
    /\ Live(t)
    /\ pc[t] = "slot_ret"
    /\ \E out \in AdvanceOutcomes(slots_, cur[t]) :
        /\ cur' = [cur EXCEPT ![t] = out.cur]
        /\ ub' = (ub \/ out.ub)
        /\ halted' = out.halted
    /\ pc' = [pc EXCEPT ![t] = "emit"]
    /\ UNCHANGED <<policy, threads, slots_, mutex, conns, obj, arg, log, snap, gone, via, iters>>

(***************************************************************************)
(* Specifications                                                          *)
(***************************************************************************)
\* Threads on a signal with a lock: connect, disconnect, emit.
Init == InitWith({"shared", "exclusive"}, Threads)

Next ==
    \E t \in Threads :
        \/ ConnectCall(t)
        \/ ConnectLock(t)
        \/ ConnectInsert(t)
        \/ \E o \in Objs : DisconnectCall(t, o)
        \/ EraseLock(t)
        \/ EraseDo(t)
        \/ DisconnectReturn(t)
        \/ \E a \in Args : EmitCall(t, a)
        \/ EmitLock(t)
        \/ EmitInvoke(t)
        \/ EmitLoopEnd(t)
        \/ EmitReturn(t)

Spec == Init /\ [][Next]_vars

\* Threads on a signal with a lock: connect, disconnect, emit_iterate.  The
\* thread that iterates leaves the registry alone until its pass is over.
NextIter ==
    \E t \in Threads :
        \/ ~iters[t].live /\ ConnectCall(t)
        \/ ConnectLock(t)
        \/ ConnectInsert(t)
        \/ \E o \in Objs : ~iters[t].live /\ DisconnectCall(t, o)
        \/ EraseLock(t)
        \/ EraseDo(t)
        \/ DisconnectReturn(t)
        \/ \E a \in Args : EmitIterate(t, a)
        \/ IterDerefCall(t)
        \/ IterDerefLock(t)
        \/ IterDerefInvoke(t)
        \/ IterAdvance(t)
        \/ IterDrop(t)

SpecIter == Init /\ [][NextIter]_vars

\* The steps of a thread inside an operation: every step but the calls.
Progress(t) ==
    \/ ConnectLock(t)
    \/ ConnectInsert(t)
    \/ EraseLock(t)
    \/ EraseDo(t)
    \/ DisconnectReturn(t)
    \/ EmitLock(t)
    \/ EmitInvoke(t)
    \/ EmitLoopEnd(t)
    \/ EmitReturn(t)

\* The same threads on a signal with shared emission, fairly scheduled: a
\* thread that can go on inside its operation does, and an emit that finds
\* the lock free of a writer again and again gets it.
InitShared == InitWith({"shared"}, Threads)

SpecFair ==
    /\ InitShared
    /\ [][Next]_vars
    /\ \A t \in Threads : WF_vars(Progress(t)) /\ SF_vars(EmitLock(t))

\* One thread, any policy: connections and scoped connections, their
\* disconnection and destruction, and emit.
InitSeq == InitWith(Policies, {1})

NextSeq ==
    \E t \in Threads :
        \/ ConnectCall(t)
        \/ ConnectLock(t)
        \/ ConnectInsert(t)
        \/ ScopedConnectCall(t)
        \/ ScopedConnectLock(t)
        \/ ScopedConnectInsert(t)
        \/ \E o \in Objs : DisconnectCall(t, o)
        \/ \E o \in Objs : DestroyScoped(t, o)
        \/ \E o \in Objs : DestroyPlain(t, o)
        \/ EraseLock(t)
        \/ EraseDo(t)
        \/ DisconnectReturn(t)
        \/ \E a \in Args : EmitCall(t, a)
        \/ EmitLock(t)
        \/ EmitInvoke(t)
        \/ EmitLoopEnd(t)
        \/ EmitReturn(t)

SpecSeq == InitSeq /\ [][NextSeq]_vars

\* One thread, any policy: scoped connections, moved, disconnected and destroyed.
NextMove ==
    \E t \in Threads :
        \/ Nodes < MaxMoveConn /\ ScopedConnectCall(t)
        \/ ScopedConnectLock(t)
        \/ ScopedConnectInsert(t)
        \/ \E o \in Objs : Move(t, o)
        \/ \E o \in Objs : DisconnectCall(t, o)
        \/ \E o \in Objs : DestroyScoped(t, o)
        \/ Catch(t)
        \/ EraseLock(t)
        \/ EraseDo(t)
        \/ DisconnectReturn(t)

SpecMove == InitSeq /\ [][NextMove]_vars

\* Threads on a signal with a lock whose slots may throw: connect,
\* disconnect, emit.
NextThrow ==
    \E t \in Threads :
        \/ ConnectCall(t)
        \/ ConnectLock(t)
        \/ ConnectInsert(t)
        \/ \E o \in Objs : DisconnectCall(t, o)
        \/ EraseLock(t)
        \/ EraseDo(t)
        \/ DisconnectReturn(t)
        \/ \E a \in Args : EmitCall(t, a)
        \/ EmitLock(t)
        \/ EmitInvoke(t)
        \/ EmitThrow(t)
        \/ EmitUnwind(t)
        \/ EmitLoopEnd(t)
        \/ EmitReturn(t)
        \/ Catch(t)

SpecThrow == Init /\ [][NextThrow]_vars

\* Threads on a signal with a lock, with every operation that takes the
\* lock and slots that may throw.
NextHold ==
    \E t \in Threads :
        \/ Nodes < MaxHoldConn /\ ~iters[t].live /\ ConnectCall(t)
        \/ ConnectLock(t)
        \/ ConnectInsert(t)
        \/ \E o \in Objs : ~iters[t].live /\ DisconnectCall(t, o)
        \/ EraseLock(t)
        \/ EraseDo(t)
        \/ DisconnectReturn(t)
        \/ \E a \in Args : ~iters[t].live /\ EmitCall(t, a)
        \/ EmitLock(t)
        \/ EmitInvoke(t)
        \/ EmitThrow(t)
        \/ EmitUnwind(t)
        \/ EmitLoopEnd(t)
        \/ EmitReturn(t)
        \/ Catch(t)
        \/ \E a \in Args : EmitIterate(t, a)
        \/ IterDerefCall(t)
        \/ IterDerefLock(t)
        \/ IterDerefInvoke(t)
        \/ IterDerefThrow(t)
        \/ IterAdvance(t)
        \/ IterDrop(t)

SpecHold == Init /\ [][NextHold]_vars

\* Threads on a signal with a lock that share their handles.
NextRace ==
    \E t \in Threads :
        \/ ConnectCall(t)
        \/ ConnectLock(t)
        \/ ConnectInsert(t)
        \/ \E o \in Objs : RaceDisconnectCall(t, o)
        \/ EraseLock(t)
        \/ RaceEraseDo(t)
        \/ RaceDisconnectReturn(t)

SpecRace == Init /\ [][NextRace]_vars

\* One thread whose slots call connect and disconnect on the signal that is
\* calling them.
NextReentrant ==
    \E t \in Threads :
        \/ ConnectCall(t)
        \/ ConnectLock(t)
        \/ ConnectInsert(t)
        \/ \E a \in Args : EmitCall(t, a)
        \/ EmitLock(t)
        \/ EmitInvoke(t)
        \/ \E o \in Objs : SlotDisconnect(t, o)
        \/ SlotEraseLock(t)
        \/ SlotEraseDo(t)
        \/ SlotDisconnectReturn(t)
        \/ SlotConnect(t)
        \/ SlotConnectLock(t)
        \/ SlotConnectInsert(t)
        \/ SlotLockThrows(t)
        \/ SlotReturn(t)
        \/ EmitUnwind(t)
        \/ Catch(t)
        \/ EmitLoopEnd(t)
        \/ EmitReturn(t)

SpecReentrant == InitSeq /\ [][NextReentrant]_vars

\* One thread that connects and disconnects while it walks emit_iterate
\* sequences.
NextLive ==
    \E t \in Threads :
        \/ ConnectCall(t)
        \/ ConnectLock(t)
        \/ ConnectInsert(t)
        \/ \E o \in Objs : DisconnectCall(t, o)
        \/ EraseLock(t)
        \/ EraseDo(t)
        \/ DisconnectReturn(t)
        \/ \E a \in Args : EmitIterate(t, a)
        \/ \E a \in Args : EmitIterateTemp(t, a)
        \/ IterBegin(t)
        \/ IterDerefCall(t)
        \/ IterDerefLock(t)
        \/ IterDerefInvoke(t)
        \/ IterAdvance(t)
        \/ IterDrop(t)

SpecLive == InitSeq /\ [][NextLive]_vars

(***************************************************************************)
(* Properties                                                              *)
(***************************************************************************)
Idle == \A t \in Threads : pc[t] = "idle"

Disconnecting == {"disc_wait", "erase_cs", "disc_reset"}

\* The calls of a pass over list with argument a: each node once, in order.
Calls(list, a) == [i \in 1..Len(list) |-> <<list[i], a>>]

\* C1: between operations of a single thread (connects, disconnects and
\* destructions in any order), the registry holds exactly the slots whose
\* handle has not been disconnected, each once, in the order they were
\* connected in (node k is the k-th connected).
C1_RegistryIsTheConnectedSlots ==
    Idle =>
        /\ Range(slots_) = {conns[o].slot : o \in {x \in Objs : ~conns[x].disconnected}}
        /\ \A i, j \in 1..Len(slots_) : i < j => slots_[i] < slots_[j]

\* Slots 1, 2, 3 were connected and the middle one disconnected.
C1_Witness ==
    /\ Idle
    /\ slots_ = <<1, 3>>
    /\ Len(conns) = 3
    /\ conns[2].disconnected

C3_DisconnectedSlotIsNotCalled ==
    \A t \in Threads :
        /\ \A i \in 1..Len(log[t]) : log[t][i][1] \notin gone[t]
        /\ (/\ pc[t] = "emit_end"
            /\ arg[t] = 5
            /\ Nodes = 3
            /\ Returned = {2}
            /\ \A u \in Threads : pc[u] \notin Disconnecting) => log[t] = <<<<1, 5>>, <<3, 5>>>>

\* Connect A, B, C; disconnect B; emit(5) has made its calls.
C3_Witness ==
    \E t \in Threads :
        /\ pc[t] = "emit_end"
        /\ arg[t] = 5
        /\ gone[t] = {2}
        /\ log[t] = <<<<1, 5>>, <<3, 5>>>>

\* C4: the first disconnect() on a handle that holds its erase action
\* removes the handle's entry and nothing else and leaves the handle with the
\* no-op; every later disconnect() on it leaves the registry as it is, with
\* nothing undefined.
C4_Step ==
    \A t \in Threads :
        (pc[t] \in Disconnecting) =>
            LET o == obj[t]
                slot == conns[o].slot
            IN  /\ conns[o].disconnected => slots_' = slots_ /\ ub' = ub /\ halted' = halted
                /\ (~conns[o].disconnected /\ pc[t] = "erase_cs") =>
                       /\ slot \in Range(slots_)
                       /\ slots_' = SelectSeq(slots_, LAMBDA n : n # slot)
                       /\ Len(slots_') = Len(slots_) - 1
                /\ (~conns[o].disconnected /\ pc[t] # "erase_cs") => slots_' = slots_
                /\ pc'[t] = "idle" =>
                       /\ conns'[o].erase_func = NoOp
                       /\ slot \notin Range(slots_')

C4_DisconnectIsIdempotent == [][C4_Step]_vars

\* A second disconnect() on a handle has run its erase_func, with other slots registered.
C4_Witness ==
    \E t \in Threads :
        /\ pc[t] = "disc_reset"
        /\ via[t] = "call"
        /\ conns[obj[t]].disconnected
        /\ slots_ # <<>>

\* C5: the destruction of a scoped connection removes its slot, once, if no
\* disconnect() was called on it before, and removes nothing if one was; it
\* removes no other entry, and when the object is gone its slot is not in the
\* registry.
C5_Step ==
    \A o \in Objs :
        /\ (\E t \in Threads : pc[t] \in Disconnecting /\ obj[t] = o /\ via[t] = "dtor") =>
            \/ slots_' = slots_
            \/ /\ ~conns[o].disconnected
               /\ conns[o].slot \in Range(slots_)
               /\ slots_' = SelectSeq(slots_, LAMBDA n : n # conns[o].slot)
               /\ Len(slots_') = Len(slots_) - 1
        /\ (conns[o].scoped /\ conns[o].alive /\ ~conns'[o].alive) =>
            /\ conns[o].slot \notin Range(slots_')
            /\ \E t \in Threads : pc[t] = "disc_reset" /\ obj[t] = o /\ via[t] = "dtor"
        /\ (\E t \in Threads : pc[t] = "idle" /\ pc'[t] # "idle" /\ obj'[t] = o /\ via'[t] = "dtor") =>
            (conns[o].disconnected <=> conns[o].slot \notin Range(slots_))

C5_ScopedDestructionDisconnectsOnce == [][C5_Step]_vars

\* A scoped connection's destructor has erased its slot; another slot stays.
C5_Witness ==
    \E t \in Threads :
        /\ pc[t] = "disc_reset"
        /\ via[t] = "dtor"
        /\ ~conns[obj[t]].disconnected
        /\ conns[obj[t]].slot \notin Range(slots_)
        /\ slots_ # <<>>

\* C6: a moved-from scoped connection is disarmed: its destruction and a
\* disconnect() on it complete normally and reach no erase, so that the slot
\* is removed once, by the moved-to object, and nothing undefined happens.
C6_MovedFromIsDisarmed ==
    /\ halted = "no"
    /\ ~ub
    /\ \A t \in Threads :
        (pc[t] \in Disconnecting \cup {"threw"} /\ conns[obj[t]].moved) => pc[t] = "disc_reset"

InMutation(t) == pc[t] \in {"connect_cs", "erase_cs"}

InEmit(t) == pc[t] \in {"emit", "emit_end"}

\* C7: with shared emission, a thread inside connect's insert or
\* disconnect's erase excludes every other thread from an insert, an erase
\* and an emit pass.
C7_MutationExcludesEmission ==
    policy = "shared" =>
        \A t, u \in Threads : (t # u /\ InMutation(t)) => ~InMutation(u) /\ ~InEmit(u)

\* Two emit passes are under way at once, both in the middle of the registry.
C7_Witness ==
    /\ policy = "shared"
    /\ \E t, u \in Threads :
        /\ t # u
        /\ pc[t] = "emit" /\ Len(log[t]) = 1 /\ cur[t] # END
        /\ pc[u] = "emit" /\ Len(log[u]) = 1 /\ cur[u] # END

\* C8: with exclusive emission, at most one thread is inside an insert, an
\* erase or an emit pass, so a pass makes all its calls with no call of
\* another pass in between.
C8_AllAccessSerialized ==
    policy = "exclusive" =>
        \A t, u \in Threads :
            (t # u /\ (InMutation(t) \/ InEmit(t))) => ~InMutation(u) /\ ~InEmit(u)

\* An emit is in the middle of its pass while another emit waits for the lock.
C8_Witness ==
    /\ policy = "exclusive"
    /\ \E t, u \in Threads :
        /\ pc[t] = "emit" /\ Len(log[t]) = 1 /\ cur[t] # END
        /\ pc[u] = "emit_wait"

\* Some thread is inside an operation and none of them can take a step.
Deadlocked ==
    /\ \E t \in Threads : pc[t] # "idle"
    /\ \A t \in Threads : ~ENABLED Progress(t)

C10_IteratorNeverDangles ==
    /\ ~ub
    /\ \A t \in Threads :
        (iters[t].live /\ iters[t].cur # END) => iters[t].cur \in Range(slots_)


\* The slots a sequence's dereferences have called, in the order called.
IterSlots(t) == [i \in 1..Len(iters[t].log) |-> iters[t].log[i][1]]

\* C11: every dereference of an emit_iterate sequence calls the slot under
\* the cursor with the arguments given to emit_iterate and yields that slot's
\* result; a first pass calls slots in registration order, each at most once;
\* and no more slots are called than the cursor has passed or stands on.
C11_IterationYieldsSlotResults ==
    \A t \in Threads :
        /\ \A i \in 1..Len(iters[t].log) :
              /\ iters[t].log[i][2] = iters[t].arg
              /\ iters[t].log[i][3] = SlotResult(iters[t].log[i][1], iters[t].arg)
        /\ (~ub /\ iters[t].passes = 1) =>
              \A i, j \in 1..Len(iters[t].log) : i < j => IterSlots(t)[i] < IterSlots(t)[j]

\* An emit that a slot's exception has ended, before and after the unwinding.
EmitFailed(t) == pc[t] \in {"emit_threw", "threw"} /\ log[t] # <<>>

\* The calls of an emit whose last call threw: the slots of list up to the
\* k-th, each called once with a.
CallsUpTo(list, a, k) ==
    [i \in 1..k |-> IF i = k THEN <<list[i], a, "threw">> ELSE <<list[i], a>>]

\* C12: when a slot throws during emit, the exception reaches emit's caller:
\* the loop calls nothing more and emit does not return normally; the slots
\* registered before the failing one were each called once, in order, and none
\* after it; and the registry is as it was when the emit began.
C12_FailingSlotAbortsEmit ==
    \A t \in Threads :
        /\ \A i \in 1..Len(log[t]) :
              Len(log[t][i]) = 3 => (i = Len(log[t]) /\ EmitFailed(t))
        /\ EmitFailed(t) =>
              /\ Len(log[t]) <= Len(snap[t])
              /\ log[t] = CallsUpTo(snap[t], arg[t], Len(log[t]))
        /\ pc[t] = "emit_threw" => slots_ = snap[t]

\* The second of three slots threw: the first was called, the third was not.
C12_Witness ==
    \E t \in Threads :
        /\ pc[t] = "threw"
        /\ slots_ = snap[t]
        /\ Len(snap[t]) = 3
        /\ Len(log[t]) = 2
        /\ Len(log[t][2]) = 3

\* A step in which begin() is called again on thread t's sequence object.
BeginsAgain(t) ==
    /\ iters[t].live
    /\ iters'[t].live
    /\ iters'[t].passes > iters[t].passes

NestedWait(t) == pc[t] \in {"slot_disc_wait", "slot_conn_wait"}

\* C14 as stated: under the shared policy a slot that calls connect or
\* disconnect on its own signal blocks for ever at the nested lock, so that
\* the emit never returns.
C14_NestedLockBlocksForever ==
    [][\A t \in Threads :
          (policy = "shared" /\ NestedWait(t)) => pc'[t] = pc[t]]_vars

\* C14, amended: under the shared policy the nested exclusive lock of a slot
\* that calls connect or disconnect on its own signal is never acquired while
\* the emit holds its shared lock, and the registry is as it was when the emit
\* locked it.  The thread waits at the nested lock; the only way on from there
\* is the lock reporting the deadlock by an exception, after which emit is left
\* as by a failing slot and calls no further slot.
C14_NestedLockNeverAcquired ==
    /\ [](\A t \in Threads :
            (policy = "shared" /\ pc[t] \in InSlot \cup {"emit", "emit_end", "emit_threw"}) =>
                /\ pc[t] \notin {"slot_erase_cs", "slot_conn_cs"}
                /\ t \in mutex.r
                /\ slots_ = snap[t]
                /\ NestedWait(t) => ~ENABLED (SlotEraseLock(t) \/ SlotConnectLock(t)))
    /\ [][\A t \in Threads :
            (policy = "shared" /\ NestedWait(t) /\ pc'[t] # pc[t]) =>
                /\ pc'[t] = "emit_threw"
                /\ slots_' = slots_
                /\ log'[t][Len(log'[t])] = <<cur[t], arg[t], "threw">>]_vars

\* The deadlock: under the shared policy the second slot of an emit called
\* disconnect() on a connected handle and waits for the lock its own emit
\* holds.
C14_Witness ==
    \E t \in Threads :
        /\ policy = "shared"
        /\ pc[t] = "slot_disc_wait"
        /\ Len(log[t]) = 2
        /\ conns[obj[t]].slot \in Range(slots_)
        /\ t \in mutex.r
        /\ ~ENABLED SlotEraseLock(t)

\* The handle o holds a token that its disconnect() has yet to use.
Armed(o) ==
    /\ conns[o].erase_func.tag = "erase"
    /\ \A t \in Threads : ~(obj[t] = o /\ pc[t] = "disc_reset")

\* C15: every armed handle's token stands for the entry its own connect
\* inserted, which is in the registry; and a step that changes the registry
\* either appends one new entry at the end (connect, scoped_connect) or takes
\* out exactly the entry of the handle being disconnected, the others staying
\* in their order.  So a handle taken earlier removes its own slot after any
\* other connects and disconnects.
C15_RemovalTakesOnlyItsOwnEntry ==
    /\ [](\A o \in Objs : Armed(o) =>
            /\ conns[o].erase_func.iter = conns[o].slot
            /\ conns[o].slot \in Range(slots_)
            /\ \A p \in Objs : (p # o /\ Armed(p)) => conns[p].slot # conns[o].slot)
    /\ [][slots_' # slots_ =>
            \/ /\ \E t \in Threads : pc[t] \in {"connect_cs", "sconnect_cs"}
               /\ Len(slots_') = Len(slots_) + 1
               /\ SubSeq(slots_', 1, Len(slots_)) = slots_
               /\ slots_'[Len(slots_')] \notin Range(slots_)
            \/ \E t \in Threads :
                 /\ pc[t] = "erase_cs"
                 /\ conns[obj[t]].slot \in Range(slots_)
                 /\ slots_' = SelectSeq(slots_, LAMBDA n : n # conns[obj[t]].slot)
                 /\ Len(slots_') = Len(slots_) - 1]_vars

\* The first handle has just erased its slot, after two later connects and
\* the disconnect of the second handle: the third slot is what remains.
C15_Witness ==
    \E t \in Threads :
        /\ pc[t] = "disc_reset"
        /\ obj[t] = 1
        /\ Len(conns) = 3
        /\ conns[2].disconnected
        /\ slots_ = <<3>>

\* C16: when threads call disconnect() on one handle at the same time, the
\* handle's token is used for one erase at most: no thread comes to erase an
\* entry that is no longer in the registry, no thread assigns erase_func
\* while another is using it, and nothing undefined happens.
C16_ConcurrentDisconnectErasesOnce ==
    /\ ~ub
    /\ \A t \in Threads : pc[t] = "erase_cs" => conns[obj[t]].slot \in Range(slots_)
    /\ \A t \in Threads : pc[t] = "disc_reset" => ~Shared(t, obj[t])

\* C17: no emission cursor stands on an erased entry: neither the iterator
\* of emit's loop, while a slot runs or between two slots, nor the iterator
\* of an emit_iterate sequence; and nothing undefined follows from one.
C17_CursorNeverOnErasedEntry ==
    /\ ~ub
    /\ \A t \in Threads :
        /\ (pc[t] \in InSlot \cup {"emit"} /\ cur[t] # END) => cur[t] \in Range(slots_)
        /\ (iters[t].live /\ iters[t].cur # END) => iters[t].cur \in Range(slots_)

\* Where a thread is while it holds the lock that emit_locker takes.
UnderEmitLocker == {"emit", "emit_end", "emit_threw", "deref_cs"}

\* Where a thread is while it holds the lock that connect or the erase
\* lambda takes.
UnderUniqueLock == {"connect_cs", "erase_cs"}

\* C18: a thread holds the lock only inside the operation that took it.  It
\* owns the mutex exclusively exactly while it is inside connect or the erase
\* lambda, or under an exclusive emit_locker; it owns it shared exactly while
\* it is under a shared emit_locker; so once connect, disconnect, emit (also
\* an emit that a throwing slot ended) or one operator*() has returned, it
\* holds neither lock, and when every thread is outside its operations the
\* mutex is free.
C18_LockHeldOnlyInsideOperations ==
    /\ \A t \in Threads :
        /\ mutex.w = t <=> \/ pc[t] \in UnderUniqueLock
                           \/ EmitLocker = "unique_lock" /\ pc[t] \in UnderEmitLocker
        /\ t \in mutex.r <=> (EmitLocker = "shared_lock" /\ pc[t] \in UnderEmitLocker)
    /\ (\A t \in Threads : pc[t] \notin UnderUniqueLock \cup UnderEmitLocker) =>
          mutex = [w |-> NoThread, r |-> {}]

\* One thread's emit was ended by a throwing slot and the exception is with
\* its caller; the other thread has since taken the exclusive lock.
C18_Witness ==
    \E t, u \in Threads :
        /\ pc[t] = "threw"
        /\ log[t] # <<>>
        /\ pc[u] \in UnderUniqueLock
        /\ mutex.w = u

\* The entries of list that stand before iter; all of them when iter is end().
Before(list, iter) ==
    {list[i] : i \in {j \in 1..Len(list) : \A k \in 1..j : list[k] # iter}}

\* Thread t walks its sequence for the first time, as a range-for does: it
\* has dereferenced every position it left, and nothing undefined happened.
FirstWalk(t) ==
    /\ ~ub
    /\ iters[t].live
    /\ iters[t].passes = 1
    /\ ~iters[t].skipped
    /\ iters[t].cur \in Range(slots_) \cup {END}

\* C19: an emit_iterate sequence follows the registry as it is, not as it
\* was when the sequence was made.  In one thread, every entry now in the
\* registry that stands before the cursor has been called by the walk, the
\* entries connected after the sequence was made among them; at end() that
\* is every entry connected before the cursor came there.  A dereference
\* calls the slot under the cursor, which is in the registry at that moment:
\* a slot that was disconnected before the cursor came to it is not called.
C19_SequenceIsALiveView ==
    /\ [](\A t \in Threads : FirstWalk(t) =>
            /\ \A n \in Before(slots_, iters[t].cur) :
                  (iters[t].cur = END => n <= iters[t].ended) => n \in Range(IterSlots(t))
            /\ \A n \in Range(IterSlots(t)) \cap Range(slots_) :
                  n \in Before(slots_, iters[t].cur) \cup {iters[t].cur})
    /\ [][\A t \in Threads :
            (~ub' /\ Len(iters'[t].log) > Len(iters[t].log)) =>
                /\ iters[t].cur \in Range(slots_)
                /\ IterSlots(t)' = Append(IterSlots(t), iters[t].cur)]_vars

\* A sequence made over slots 1 and 2 was walked to its end; meanwhile slot
\* 2 was disconnected before the cursor came to it and slot 3 was connected:
\* the walk called 1 and 3.
C19_Witness ==
    \E t \in Threads :
        /\ FirstWalk(t)
        /\ iters[t].made = <<1, 2>>
        /\ slots_ = <<1, 3>>
        /\ iters[t].cur = END
        /\ IterSlots(t) = <<1, 3>>

\* The plain handles that were destroyed without disconnect() ever having
\* been called on them.
Abandoned == {o \in Objs : ~conns[o].scoped /\ ~conns[o].alive /\ ~conns[o].disconnected}

\* C20: destroying a plain Connection removes nothing.  The slot of a plain
\* handle destroyed without disconnect() stays in the registry and every emit
\* that runs to its end has called it; the step that destroys a plain handle
\* leaves the registry as it is; and an entry leaves the registry only in a
\* disconnect() called on a handle or run by a ScopedConnection's destructor.
C20_PlainDestructionRemovesNothing ==
    /\ [](\A o \in Abandoned :
            /\ conns[o].slot \in Range(slots_)
            /\ \A t \in Threads : pc[t] = "emit_end" =>
                  \E i \in 1..Len(log[t]) : log[t][i] = <<conns[o].slot, arg[t]>>)
    /\ [][/\ \A o \in Objs :
               (~conns[o].scoped /\ conns[o].alive /\ ~conns'[o].alive) => slots_' = slots_
          /\ (Range(slots_) \ Range(slots_')) # {} =>
               \E t \in Threads :
                  /\ pc[t] = "erase_cs"
                  /\ Range(slots_) \ Range(slots_') = {conns[obj[t]].slot}
                  /\ via[t] = "call" \/ (via[t] = "dtor" /\ conns[obj[t]].scoped)]_vars

\* The first handle, a plain one, was destroyed without disconnect(); a later
\* emit over two slots has called its slot.
C20_Witness ==
    \E t \in Threads :
        /\ 1 \in Abandoned
        /\ pc[t] = "emit_end"
        /\ slots_ = <<1, 2>>
        /\ Len(log[t]) = 2
        /\ log[t][1] = <<1, arg[t]>>

==============================================================================
